---- MODULE Spec2Model ----
(***************************************************************************)
(* Model of well_point_interpolate.py: one run of main().  The state is    *)
(* main's locals, the log and stdout; one action per step of main.         *)
(* Optional values (Python None / a value) are modelled as sequences of    *)
(* length 0 / 1, numbers as integers.                                      *)
(***************************************************************************)
EXTENDS Integers, Sequences, FiniteSets, TLC

(* ------------------------------ bounds --------------------------------- *)

\* longest md command-line string that is explored
MaxMdChars == 3

(* --------------------------- option values ----------------------------- *)

None == <<>>
Some(v) == <<v>>
IsNone(o) == o = <<>>
Val(o) == o[1]

\* Python truthiness of an optional number: None and 0 are falsy
Truthy(o) == o # <<>> /\ o[1] # 0

(* ----------------------------- inputs ---------------------------------- *)

\* characters an md argument is built from
MdAlphabet == {"4", "9", ",", "x"}

RECURSIVE StringsUpTo(_)
StringsUpTo(n) ==
    IF n = 0 THEN {<<>>}
    ELSE LET shorter == StringsUpTo(n - 1)
         IN  shorter \cup {Append(s, c) : s \in {t \in shorter : Len(t) = n - 1}, c \in MdAlphabet}

MdStrings == StringsUpTo(MaxMdChars)

\* the columns a CSV may have
CsvColumnSets == {{"md", "azi", "inc"}, {"md", "azi", "inc", "tvd"}, {"md", "azi"}}

\* the survey data of a CSV: a straight well between two depths (constant
\* inclination and azimuth, in degrees); first_md = last_md is a single station
CsvSurveys ==
    { [first_md |-> 0, last_md |-> 5,  inc |-> 0,  azi |-> 0],
      [first_md |-> 5, last_md |-> 50, inc |-> 90, azi |-> 0],
      [first_md |-> 4, last_md |-> 4,  inc |-> 0,  azi |-> 0] }

WkidArgs == {None, Some(32615), Some(99999)}
X0Args == {None, Some(0), Some(10)}
Y0Args == {None, Some(0), Some(20)}
Z0Args == {None, Some(30)}
AziAdjArgs == {None, Some(90)}

(* ------------------- float() and str.split(",") ------------------------ *)

DigitValue(c) ==
    CASE c = "0" -> 0 [] c = "1" -> 1 [] c = "2" -> 2 [] c = "3" -> 3 [] c = "4" -> 4
      [] c = "5" -> 5 [] c = "6" -> 6 [] c = "7" -> 7 [] c = "8" -> 8 [] c = "9" -> 9
      [] OTHER -> -1

\* s.split(","): the pieces between commas; always at least one piece
RECURSIVE SplitComma(_, _, _)
SplitComma(s, k, piece) ==
    IF k > Len(s) THEN <<piece>>
    ELSE IF s[k] = "," THEN <<piece>> \o SplitComma(s, k + 1, <<>>)
    ELSE SplitComma(s, k + 1, Append(piece, s[k]))

Split(s) == SplitComma(s, 1, <<>>)

\* float(piece) for pieces over the alphabet: a non-empty run of digits is
\* its decimal value, anything else raises ValueError
FloatOk(piece) == Len(piece) > 0 /\ \A k \in 1..Len(piece) : DigitValue(piece[k]) >= 0

RECURSIVE DecimalValue(_, _)
DecimalValue(piece, k) ==
    IF k = 0 THEN 0 ELSE 10 * DecimalValue(piece, k - 1) + DigitValue(piece[k])

Float(piece) == DecimalValue(piece, Len(piece))

\* faulty variant: pieces that are not floats are skipped instead of raising
ParseMdsLenient(s) ==
    LET pieces == Split(s)
        good == SelectSeq(pieces, FloatOk)
    IN  [ok |-> TRUE, v |-> [k \in 1..Len(good) |-> Float(good[k])]]

\* mds = [float(md) for md in args.md.split(",")]
ParseMds(s) ==
    LET pieces == Split(s)
    IN  IF \A k \in 1..Len(pieces) : FloatOk(pieces[k])
        THEN [ok |-> TRUE, v |-> [k \in 1..Len(pieces) |-> Float(pieces[k])]]
        ELSE [ok |-> FALSE, v |-> <<>>]

(* ------------- well_profile: load() and Well.get_point() --------------- *)

\* sine and cosine of the angles a straight survey can have
Sin(deg) == CASE deg = 0 -> 0 [] deg = 90 -> 1 [] deg = 180 -> 0 [] deg = 270 -> -1
Cos(deg) == CASE deg = 0 -> 1 [] deg = 90 -> 0 [] deg = 180 -> -1 [] deg = 270 -> 0

\* wp.load(df, set_start=..., change_azimuth=...): the path of a straight
\* survey anchored at set_start, azimuths rotated by change_azimuth; data with
\* a missing column or fewer than two stations is rejected
WpLoad(df, set_start, change_azimuth) ==
    IF ~({"md", "azi", "inc"} \subseteq df.cols) \/ df.survey.first_md >= df.survey.last_md
    THEN [ok |-> FALSE, well |-> None]
    ELSE [ok |-> TRUE,
          well |-> Some([min_md |-> df.survey.first_md,
                         max_md |-> df.survey.last_md,
                         inc |-> df.survey.inc,
                         azi |-> (df.survey.azi + change_azimuth) % 360,
                         east |-> set_start.east,
                         north |-> set_start.north])]

\* well.get_point(md): ValueError outside [min_md, max_md], otherwise the
\* path position at md (first station at the start point, tvd 0)
GetPoint(w, md) ==
    IF md < w.min_md \/ md > w.max_md
    THEN [ok |-> FALSE, east |-> 0, north |-> 0, tvd |-> 0]
    ELSE LET d == md - w.min_md
         IN  [ok |-> TRUE,
              east  |-> w.east  + d * Sin(w.inc) * Sin(w.azi),
              north |-> w.north + d * Sin(w.inc) * Cos(w.azi),
              tvd   |-> d * Cos(w.inc)]

(* ------------------------------ pyproj --------------------------------- *)

\* EPSG codes pyproj knows
KnownEpsg == {4326, 32615}

\* pyproj.Transformer.from_crs(crs_from=wkid, crs_to=4326, always_xy=True):
\* CRSError for an unknown code
FromCrs(wkid) ==
    IF wkid \in KnownEpsg THEN [ok |-> TRUE, t |-> Some(wkid)] ELSE [ok |-> FALSE, t |-> None]

\* transformer.transform(xx=x, yy=y): TypeError for a None coordinate,
\* otherwise a (lon, lat) pair computed from (x, y)
Transform(tr, x, y) ==
    IF IsNone(x) \/ IsNone(y)
    THEN [ok |-> FALSE, lon |-> None, lat |-> None]
    ELSE [ok |-> TRUE, lon |-> Some((Val(x) % 360) - 180), lat |-> Some((Val(y) % 180) - 90)]

(* --------------------------- main's pieces ----------------------------- *)

\* args.x0 if args.x0 else 0
OrZero(o) == IF Truthy(o) THEN Val(o) ELSE 0

RequiredCols == {"md", "azi", "inc"}

\* faulty variant: the inclination column is not required
MissingColsNoInc(well_cols) == {"md", "azi"} \ well_cols

\* required_cols - well_cols
MissingCols(well_cols) == RequiredCols \ well_cols

\* faulty variant: x taken from north and y from east
InterpolatePointSwapped(w, md, z) ==
    LET p == GetPoint(w, md)
    IN  IF p.ok
        THEN [md |-> md, x |-> Some(p.north), y |-> Some(p.east), z |-> Some(z - p.tvd)]
        ELSE [md |-> md, x |-> None, y |-> None, z |-> None]

\* faulty variant: the failure record keeps the origin elevation
InterpolatePointKeepsZ(w, md, z) ==
    LET p == GetPoint(w, md)
    IN  IF p.ok
        THEN [md |-> md, x |-> Some(p.east), y |-> Some(p.north), z |-> Some(z - p.tvd)]
        ELSE [md |-> md, x |-> None, y |-> None, z |-> Some(z)]

\* the body of the batch loop: the record for one md
InterpolatePoint(w, md, z) ==
    LET p == GetPoint(w, md)
    IN  IF p.ok
        THEN [md |-> md, x |-> Some(p.east), y |-> Some(p.north), z |-> Some(z - p.tvd)]
        ELSE [md |-> md, x |-> None, y |-> None, z |-> None]

\* faulty variant: the origin is not required for the projection
GetLatlonWkidOnly(w, x, y) == Truthy(w)

\* get_latlon = wkid and x0 and y0
GetLatlon(w, x, y) == Truthy(w) /\ x # 0 /\ y # 0

\* point[key] = value for two keys (a dict assignment: set or add)
SetKeys(point, k1, v1, k2, v2) ==
    [f \in DOMAIN point \cup {k1, k2} |->
        IF f = k1 THEN v1 ELSE IF f = k2 THEN v2 ELSE point[f]]

\* faulty variant: the projected coordinates replace x and y
AddLatlonOverwrites(point, tr) ==
    LET r == Transform(tr, point.x, point.y)
    IN  SetKeys(point, "x", r.lon, "y", r.lat)

\* faulty variant: a failed transform leaves the point as it was
AddLatlonOmits(point, tr) ==
    LET r == Transform(tr, point.x, point.y)
    IN  IF r.ok THEN SetKeys(point, "lat", r.lat, "lon", r.lon) ELSE point

\* add_latlon(point, transformer)
AddLatlon(point, tr) ==
    LET r == Transform(tr, point.x, point.y)
        lon == IF r.ok THEN r.lon ELSE None
        lat == IF r.ok THEN r.lat ELSE None
    IN  SetKeys(point, "lat", lat, "lon", lon)

(* ------------------------------ state --------------------------------- *)

VARIABLES
    args,      \* the parsed command line: md, csv, wkid, x0, y0, z0, azi_adj
    pc,        \* position of main()
    mds,       \* None while unbound, Some(list of floats) once assigned
    wkid,      \* None, or Some(code)
    origin,    \* None until assigned, then Some([x0, y0, z0, azi_adj])
    well_df,   \* None, or Some(data frame)
    well,      \* None, or Some(trajectory)
    points,    \* the list of output records
    t,         \* None, or Some(transformer)
    projected, \* number of points handed to add_latlon
    log,       \* messages logged at warning level and above
    exc,       \* the uncaught exception that ended the run, "" if none
    stdout     \* None, or Some(printed list)

vars == <<args, pc, mds, wkid, origin, well_df, well, points, t, projected, log, exc, stdout>>

ArgsSpace ==
    [md : MdStrings,
     csv : [cols : CsvColumnSets, survey : CsvSurveys],
     wkid : WkidArgs, x0 : X0Args, y0 : Y0Args, z0 : Z0Args, azi_adj : AziAdjArgs]

\* main() entered, get_args() returned
Init ==
    /\ args \in ArgsSpace
    /\ pc = "parse_args"
    /\ mds = None
    /\ wkid = None
    /\ origin = None
    /\ well_df = None
    /\ well = None
    /\ points = <<>>
    /\ t = None
    /\ projected = 0
    /\ log = <<>>
    /\ exc = ""
    /\ stdout = None

\* one logger call: its level, its text and the names of the values formatted into it
Logged(level, msg, ctx) == log' = Append(log, [level |-> level, msg |-> msg, ctx |-> ctx])

(* ------------------------------ actions -------------------------------- *)

\* lines 113-126: parse md, log a ValueError and go on; default the origin
ParseArgs ==
    /\ pc = "parse_args"
    /\ LET r == ParseMds(args.md)
       IN  IF r.ok
           THEN mds' = Some(r.v) /\ UNCHANGED log
           ELSE UNCHANGED mds /\ Logged("ERROR", "Could not parse md parameter", {})
    /\ wkid' = args.wkid
    /\ origin' = Some([x0 |-> OrZero(args.x0), y0 |-> OrZero(args.y0),
                       z0 |-> OrZero(args.z0), azi_adj |-> OrZero(args.azi_adj)])
    /\ pc' = "read_csv"
    /\ UNCHANGED <<args, well_df, well, points, t, projected, exc, stdout>>

\* lines 128-130: well_df = pd.read_csv(args.csv)
ReadCsv ==
    /\ pc = "read_csv"
    /\ well_df' = Some(args.csv)
    /\ pc' = "validate"
    /\ UNCHANGED <<args, mds, wkid, origin, well, points, t, projected, log, exc, stdout>>

\* lines 133-140: raise when a required column is missing
ValidateColumns ==
    /\ pc = "validate"
    /\ IF MissingCols(Val(well_df).cols) # {}
       THEN /\ Logged("CRITICAL", "Input well data is missing required columns", {"missing_cols"})
            /\ exc' = "Exception"
            /\ pc' = "error"
       ELSE /\ pc' = "load"
            /\ UNCHANGED <<log, exc>>
    /\ UNCHANGED <<args, mds, wkid, origin, well_df, well, points, t, projected, stdout>>

\* lines 142-148: well = wp.load(...); an exception of wp.load is not caught
CreateTrajectory ==
    /\ pc = "load"
    /\ LET o == Val(origin)
           r == WpLoad(Val(well_df), [east |-> o.x0, north |-> o.y0], o.azi_adj)
       IN  IF r.ok
           THEN well' = r.well /\ pc' = "points" /\ UNCHANGED exc
           ELSE UNCHANGED well /\ pc' = "error" /\ exc' = "wp.load"
    /\ UNCHANGED <<args, mds, wkid, origin, well_df, points, t, projected, log, stdout>>

\* lines 151-152: points = []; evaluating mds raises NameError when unbound
StartPoints ==
    /\ pc = "points"
    /\ points' = <<>>
    /\ IF IsNone(mds)
       THEN pc' = "error" /\ exc' = "NameError"
       ELSE pc' = "loop" /\ UNCHANGED exc
    /\ UNCHANGED <<args, mds, wkid, origin, well_df, well, t, projected, log, stdout>>

\* faulty variant: a ValueError of get_point is not caught
InterpolateNoCatch ==
    /\ pc = "loop"
    /\ LET md == Val(mds)[Len(points) + 1]
       IN  IF GetPoint(Val(well), md).ok
           THEN /\ points' = Append(points, InterpolatePoint(Val(well), md, Val(origin).z0))
                /\ pc' = IF Len(points) + 1 = Len(Val(mds)) THEN "latlon" ELSE "loop"
                /\ UNCHANGED exc
           ELSE /\ UNCHANGED points
                /\ pc' = "error"
                /\ exc' = "ValueError"
    /\ UNCHANGED <<args, mds, wkid, origin, well_df, well, t, projected, log, stdout>>

\* faulty variant: the elevation of a point becomes the origin of the next
InterpolateCarriesZ ==
    /\ pc = "loop"
    /\ LET md == Val(mds)[Len(points) + 1]
           point == InterpolatePoint(Val(well), md, Val(origin).z0)
       IN  /\ points' = Append(points, point)
           /\ origin' = IF IsNone(point.z) THEN origin
                        ELSE Some([Val(origin) EXCEPT !.z0 = Val(point.z)])
           /\ UNCHANGED log
    /\ pc' = IF Len(points) + 1 = Len(Val(mds)) THEN "latlon" ELSE "loop"
    /\ UNCHANGED <<args, mds, wkid, well_df, well, t, projected, exc, stdout>>

\* lines 152-170: one iteration of for md in mds
Interpolate ==
    /\ pc = "loop"
    /\ LET md == Val(mds)[Len(points) + 1]
           point == InterpolatePoint(Val(well), md, Val(origin).z0)
       IN  /\ points' = Append(points, point)
           /\ IF IsNone(point.x)
              THEN Logged("ERROR", "Could not interpolate point", {"md"})
              ELSE UNCHANGED log
    /\ pc' = IF Len(points) + 1 = Len(Val(mds)) THEN "latlon" ELSE "loop"
    /\ UNCHANGED <<args, mds, wkid, origin, well_df, well, t, projected, exc, stdout>>

\* lines 172-184: decide on the projection and build the transformer
StartLatlon ==
    /\ pc = "latlon"
    /\ IF GetLatlon(wkid, Val(origin).x0, Val(origin).y0)
       THEN LET r == FromCrs(Val(wkid))
            IN  IF r.ok
                THEN t' = r.t /\ pc' = "add_latlon" /\ UNCHANGED log
                ELSE /\ UNCHANGED t
                     /\ pc' = "print"
                     /\ Logged("ERROR", "Could not create a transformation", {"wkid"})
       ELSE /\ UNCHANGED t
            /\ pc' = "print"
            /\ IF Truthy(wkid)
               THEN Logged("WARNING", "WKID was supplied without x0/y0", {})
               ELSE UNCHANGED log
    /\ UNCHANGED <<args, mds, wkid, origin, well_df, well, points, projected, exc, stdout>>

\* line 178: add_latlon on the next point of the list
AddLatlonStep ==
    /\ pc = "add_latlon"
    /\ points' = [points EXCEPT ![projected + 1] = AddLatlon(points[projected + 1], Val(t))]
    /\ projected' = projected + 1
    /\ pc' = IF projected + 1 = Len(points) THEN "print" ELSE "add_latlon"
    /\ UNCHANGED <<args, mds, wkid, origin, well_df, well, t, log, exc, stdout>>

\* lines 190-192: print(json.dumps(points))
PrintResult ==
    /\ pc = "print"
    /\ stdout' = Some(points)
    /\ pc' = "done"
    /\ UNCHANGED <<args, mds, wkid, origin, well_df, well, points, t, projected, log, exc>>

Next ==
    \/ ParseArgs
    \/ ReadCsv
    \/ ValidateColumns
    \/ CreateTrajectory
    \/ StartPoints
    \/ Interpolate
    \/ StartLatlon
    \/ AddLatlonStep
    \/ PrintResult

Spec == Init /\ [][Next]_vars

(* ------------------- vocabulary of the properties ---------------------- *)

\* the batch loop has finished
AfterLoop == pc \in {"latlon", "add_latlon", "print", "done"}

\* the coordinates of a record, without lat/lon
Core(p) == [md |-> p.md, x |-> p.x, y |-> p.y, z |-> p.z]

Placeholder(md) == [md |-> md, x |-> None, y |-> None, z |-> None]

HasLatLon(p) == "lat" \in DOMAIN p \/ "lon" \in DOMAIN p

\* md lies outside the surveyed interval of the input CSV
OutOfRange(md) == md < args.csv.survey.first_md \/ md > args.csv.survey.last_md

\* the origin as given on the command line, absent values as 0
OriginX == IF args.x0 = None THEN 0 ELSE Val(args.x0)
OriginY == IF args.y0 = None THEN 0 ELSE Val(args.y0)
OriginZ == IF args.z0 = None THEN 0 ELSE Val(args.z0)
AziAdj == IF args.azi_adj = None THEN 0 ELSE Val(args.azi_adj)

\* the path position at md relative to the origin: the path of the input
\* survey anchored at (0, 0)
RelativePath == Val(WpLoad(args.csv, [east |-> 0, north |-> 0], AziAdj).well)
Relative(md) == GetPoint(RelativePath, md)

\* the md argument is a comma-separated list of digit strings
IsDigit(c) == c \in {"0", "1", "2", "3", "4", "5", "6", "7", "8", "9"}
IsFloatList(s) ==
    /\ Len(s) > 0
    /\ \A k \in 1..Len(s) : IsDigit(s[k]) \/ s[k] = ","
    /\ s[1] # "," /\ s[Len(s)] # ","
    /\ \A k \in 1..(Len(s) - 1) : ~(s[k] = "," /\ s[k + 1] = ",")

\* the survey data of the input fail validation
MissingInput == {"md", "azi", "inc"} \ args.csv.cols
InvalidSurvey == MissingInput # {} \/ args.csv.survey.first_md >= args.csv.survey.last_md

(* ------------------------------ C1 ------------------------------------- *)

\* C1: the batch loop produces exactly one record per requested MD, in
\* request order and carrying that MD; an out-of-range MD yields a record with
\* x, y and z null, and the run never aborts inside the loop, so every later
\* MD is processed.
C1_BatchIsolation ==
    /\ pc = "loop" => Len(points) < Len(Val(mds))
    /\ pc = "error" => points = <<>> /\ (IsNone(mds) \/ IsNone(well))
    /\ (pc = "loop" \/ AfterLoop) =>
          \A k \in 1..Len(points) :
              /\ points[k].md = Val(mds)[k]
              /\ OutOfRange(Val(mds)[k]) => Core(points[k]) = Placeholder(Val(mds)[k])
    /\ AfterLoop => Len(points) = Len(Val(mds))

\* a failing MD followed by one that was interpolated
C1_Witness ==
    /\ pc = "done"
    /\ \E k \in 1..Len(points) : \E m \in 1..Len(points) :
          /\ k < m
          /\ OutOfRange(points[k].md) /\ IsNone(points[k].x)
          /\ ~OutOfRange(points[m].md) /\ ~IsNone(points[m].x)

(* ------------------------------ C2 ------------------------------------- *)

\* C2 as stated: every interpolated point has x = x0 + north, y = y0 + east
\* and z = z0 - tvd.
C2_Original ==
    \A k \in 1..Len(points) :
        ~IsNone(points[k].x) =>
            LET r == Relative(points[k].md)
            IN  /\ Val(points[k].x) = OriginX + r.north
                /\ Val(points[k].y) = OriginY + r.east
                /\ Val(points[k].z) = OriginZ - r.tvd

\* C2: every interpolated point has x = x0 + east, y = y0 + north and
\* z = z0 - tvd, where (north, east, tvd) is the path position at that MD
\* relative to the origin.
C2_EastingNorthing ==
    \A k \in 1..Len(points) :
        ~IsNone(points[k].x) =>
            LET r == Relative(points[k].md)
            IN  /\ Val(points[k].x) = OriginX + r.east
                /\ Val(points[k].y) = OriginY + r.north
                /\ Val(points[k].z) = OriginZ - r.tvd

\* a point whose north and east displacements differ was emitted with a
\* non-zero origin
C2_Witness ==
    /\ pc = "done"
    /\ OriginX # 0 /\ OriginY # 0 /\ OriginZ # 0
    /\ \E k \in 1..Len(points) :
          /\ ~IsNone(points[k].x)
          /\ Relative(points[k].md).north # Relative(points[k].md).east

(* ------------------------------ C3 ------------------------------------- *)

\* the log entries of failed interpolations
InterpolationErrors == SelectSeq(log, LAMBDA e : e.msg = "Could not interpolate point")

\* C3 as stated: an out-of-range MD yields a failure whose record (or log
\* message) carries the valid [min_md, max_md] bounds.
C3_Original ==
    \A k \in 1..Len(points) :
        OutOfRange(points[k].md) =>
            /\ IsNone(points[k].x)
            /\ \/ {"min_md", "max_md"} \subseteq DOMAIN points[k]
               \/ \E e \in 1..Len(InterpolationErrors) :
                     {"min_md", "max_md"} \subseteq InterpolationErrors[e].ctx

\* C3: an out-of-range MD always yields a failure record holding that MD and
\* null x, y, z, and one error log entry naming only the MD; neither carries
\* the bounds of the survey.
C3_FailureRecord ==
    /\ \A k \in 1..Len(points) :
          OutOfRange(points[k].md) =>
              /\ Core(points[k]) = Placeholder(points[k].md)
              /\ DOMAIN points[k] \subseteq {"md", "x", "y", "z", "lat", "lon"}
    /\ \A e \in 1..Len(InterpolationErrors) : InterpolationErrors[e].ctx = {"md"}
    /\ Len(InterpolationErrors) = Cardinality({k \in 1..Len(points) : OutOfRange(points[k].md)})

\* an MD below the first station has failed and the run went on to print
C3_Witness ==
    /\ pc = "done"
    /\ \E k \in 1..Len(points) :
          /\ points[k].md < args.csv.survey.first_md
          /\ IsNone(points[k].z)
    /\ Len(InterpolationErrors) > 0

(* ------------------------------ C4 ------------------------------------- *)

\* C4: when wkid is missing, or x0 or y0 is missing or zero, no transformer
\* is constructed, no point is projected and no record gains lat/lon.
C4_ProjectionGuard ==
    (IsNone(args.wkid) \/ OriginX = 0 \/ OriginY = 0) =>
        /\ IsNone(t)
        /\ projected = 0
        /\ \A k \in 1..Len(points) : ~HasLatLon(points[k])
        /\ ~IsNone(stdout) => \A k \in 1..Len(Val(stdout)) : ~HasLatLon(Val(stdout)[k])

\* a run with a usable wkid and y0 but a zero x0 printed its points
C4_Witness ==
    /\ pc = "done"
    /\ ~IsNone(args.wkid) /\ Val(args.wkid) \in KnownEpsg
    /\ args.x0 = Some(0) /\ OriginY # 0
    /\ \E k \in 1..Len(points) : ~IsNone(points[k].x)

(* ------------------------------ C5 ------------------------------------- *)

\* a step taken in the projection stage keeps the records' coordinates
ProjectionStepKeepsCoordinates ==
    (pc = "latlon" \/ pc = "add_latlon") =>
        /\ Len(points') = Len(points)
        /\ \A k \in 1..Len(points) : Core(points'[k]) = Core(points[k])

\* C5: every step of the projection stage keeps the number and order of the
\* records and the md, x, y and z of each, whether the transformer cannot be
\* built, the transform fails for the point or it succeeds.
C5_ProjectionFrame == [][ProjectionStepKeepsCoordinates]_vars

\* the projection ran over a batch with a projected point and a failed one
C5_Witness ==
    /\ pc = "print"
    /\ projected = Len(points)
    /\ \E k \in 1..Len(points) : HasLatLon(points[k]) /\ ~IsNone(points[k].lat)
    /\ \E k \in 1..Len(points) : HasLatLon(points[k]) /\ IsNone(points[k].lat)

(* ------------------------------ C6 ------------------------------------- *)

\* C6 as stated: in every emitted record lat and lon are present only when
\* the projection succeeded for that point; a placeholder has no lat/lon.
C6_Original ==
    ~IsNone(stdout) =>
        \A k \in 1..Len(Val(stdout)) :
            HasLatLon(Val(stdout)[k]) => ~IsNone(Val(stdout)[k].x) /\ ~IsNone(Val(stdout)[k].y)

\* C6: in every emitted record lat and lon are present exactly when the
\* transformer was built, and they are non-null only when the projection
\* succeeded for that point; a point whose projection failed (a placeholder
\* with null x/y) has lat and lon present and null.
C6_NullLatLon ==
    ~IsNone(stdout) =>
        \A k \in 1..Len(Val(stdout)) :
            LET r == Val(stdout)[k]
            IN  /\ ("lat" \in DOMAIN r) = ~IsNone(t)
                /\ ("lon" \in DOMAIN r) = ~IsNone(t)
                /\ ~IsNone(t) =>
                      /\ IsNone(r.lat) = IsNone(r.x)
                      /\ IsNone(r.lon) = IsNone(r.x)

\* a placeholder was emitted after the projection stage ran
C6_Witness ==
    /\ ~IsNone(stdout)
    /\ ~IsNone(t)
    /\ \E k \in 1..Len(Val(stdout)) : IsNone(Val(stdout)[k].x) /\ HasLatLon(Val(stdout)[k])

(* ------------------------------ C7 ------------------------------------- *)

\* C7: survey data that fail validation end the run before a trajectory
\* exists: no trajectory is built, no MD is interpolated and nothing is
\* printed; a missing required column is raised by main's own check.
C7_ValidationFatal ==
    /\ InvalidSurvey =>
          /\ IsNone(well) /\ points = <<>> /\ IsNone(stdout)
          /\ pc \in {"parse_args", "read_csv", "validate", "load", "error"}
    /\ MissingInput # {} =>
          /\ pc \in {"parse_args", "read_csv", "validate", "error"}
          /\ pc = "error" => exc = "Exception" /\ log[Len(log)].level = "CRITICAL"

\* a run stopped on a missing column
C7_Witness == pc = "error" /\ exc = "Exception" /\ MissingInput # {}

(* ------------------------------ C8 ------------------------------------- *)

\* the record of one MD, computed from the inputs of the run alone
RecordFor(md) ==
    LET w == WpLoad(args.csv, [east |-> OriginX, north |-> OriginY], AziAdj).well
    IN  InterpolatePoint(Val(w), md, OriginZ)

C10_UnparsedMd ==
    ~IsFloatList(args.md) =>
        /\ IsNone(mds) /\ points = <<>> /\ IsNone(stdout)
        /\ pc \in {"parse_args", "read_csv", "validate", "load", "points", "error"}
        /\ pc # "parse_args" => Len(log) > 0 /\ log[1].msg = "Could not parse md parameter"

\* the run reached the loop header with mds unbound
C10_Witness == pc = "error" /\ exc = "NameError" /\ ~IsFloatList(args.md)

====
